---- MODULE Spec2Model ----
(***************************************************************************)
(* A model of middlewared/plugins/service.py: the status aggregator        *)
(* (ServiceService.query), the status resolver (_get_status, _started),    *)
(* the readiness watcher (StartNotify) and the action dispatcher (start,   *)
(* stop, restart, reload).                                                 *)
(*                                                                         *)
(* Spec         one call of query(): greenlets, joinall, result mapping.   *)
(* SpecResolve  _get_status as a function of the entry and the machine.    *)
(* SpecPerform  one call of start, stop, restart or reload, with the       *)
(*              StartNotify threads it starts and the machine changing.    *)
(***************************************************************************)
EXTENDS Integers, Sequences, FiniteSets, TLC

\* Python's None
None == "None"

(***************************************************************************)
(* Bounds of the model.                                                    *)
(***************************************************************************)
\* longest list of entries datastore.query returns in the model
MaxServices == 2
\* the clock stops here when nothing else stops it
MaxClock == 17

\* gevent.joinall(..., timeout=15)
Timeout == 15

\* StartNotify.run: while tries < 6
MaxTries == 6

(***************************************************************************)
(* SERVICE_DEFS, restricted to the services the model runs:                *)
(* name |-> <<procname, pidfile>>.                                         *)
(***************************************************************************)
SERVICE_DEFS ==
    [ ssh        |-> <<"sshd", "/var/run/sshd.pid">>,
      nfs        |-> <<"nfsd", None>>,
      dynamicdns |-> <<"inadyn-mt", None>>,
      ups        |-> <<"upsd", "/var/db/nut/upsd.pid">>,
      upsmon     |-> <<"upsmon", "/var/db/nut/upsmon.pid">>,
      webshell   |-> <<None, "/var/run/webshell.pid">> ]

\* the service names _get_status is run on; django is not in SERVICE_DEFS
ServiceNames == {"ssh", "nfs", "webshell", "django"}

\* the service names start, stop, restart and reload are called with
PerformNames == {"ssh", "dynamicdns", "django", "ups", "upsmon"}

\* the names of the rows of services.services in the model
RowNames == {"ssh", "nfs", "django"}

(***************************************************************************)
(* The machine that pgrep inspects: the process table and the pid files.   *)
(***************************************************************************)
Absent == "absent"
Empty  == "empty"

Pidfiles ==
    { "/var/run/sshd.pid", "/var/run/webshell.pid",
      "/var/db/nut/upsd.pid", "/var/db/nut/upsmon.pid" }

\* the pid files and processes of the machines query() runs on
QueryPidfiles == {"/var/run/sshd.pid", "/var/run/webshell.pid"}

QueryProcs ==
    { [pid |-> 1, name |-> "sshd"],
      [pid |-> 2, name |-> "nfsd"],
      [pid |-> 3, name |-> "nfsd"],
      [pid |-> 4, name |-> "python"] }

\* a pid file is absent, empty, or holds one pid
QueryFileContents == {Absent, Empty, "1", "4"}

\* the pid a pid file holds
PidOf(content) ==
    CASE content = "1" -> 1
      [] content = "4" -> 4
      [] content = "5" -> 5
      [] content = "6" -> 6
      [] content = "7" -> 7

\* the machines query() and _get_status run on
Worlds ==
    { [procs |-> ps,
       files |-> [f \in Pidfiles |-> IF f \in QueryPidfiles THEN fs[f] ELSE Absent]] :
         ps \in SUBSET QueryProcs, fs \in [QueryPidfiles -> QueryFileContents] }

\* the ascending sequence of the numbers of a finite set
RECURSIVE SortedSeq(_)
SortedSeq(S) ==
    IF S = {} THEN <<>>
    ELSE LET m == CHOOSE x \in S : \A y \in S : x <= y
         IN  <<m>> \o SortedSeq(S \ {m})

\* one line of pgrep's output: a string of digits, or something else
DigitLine(n) == [digits |-> TRUE, n |-> n]
BlankLine    == [digits |-> FALSE, n |-> 0]

\* "/bin/pgrep -F pidfile [procname]" and "/bin/pgrep procname":
\* the exit status and the lines written to stdout
pgrep(world, procname, pidfile) ==
    LET matched ==
            IF pidfile # None
            THEN IF world.files[pidfile] \in {Absent, Empty}
                 THEN {}
                 ELSE { p \in world.procs :
                          /\ p.pid = PidOf(world.files[pidfile])
                          /\ (procname # None => p.name = procname) }
            ELSE { p \in world.procs : p.name = procname }
        pids == SortedSeq({ p.pid : p \in matched })
    IN  [ returncode |-> IF pidfile # None /\ world.files[pidfile] \in {Absent, Empty}
                         THEN 3
                         ELSE IF matched = {} THEN 1 ELSE 0,
          data |-> [ j \in 1..Len(pids) |-> DigitLine(pids[j]) ] \o <<BlankLine>> ]

\* data.strip().split('\n'): the trailing blank lines go
RECURSIVE strip_split(_)
strip_split(lines) ==
    IF lines # <<>> /\ ~ lines[Len(lines)].digits /\ Len(lines) > 1
    THEN strip_split(SubSeq(lines, 1, Len(lines) - 1))
    ELSE lines

\* [int(i) for i in ... if i.isdigit()]
RECURSIVE parse_pids(_)
parse_pids(lines) ==
    IF lines = <<>> THEN <<>>
    ELSE IF lines[1].digits
         THEN <<lines[1].n>> \o parse_pids(Tail(lines))
         ELSE parse_pids(Tail(lines))

_started_unknown_service(what, world) == <<FALSE, <<>>>>

_started_unknown_as_running(what, world) ==
    IF what \in DOMAIN SERVICE_DEFS
    THEN LET procname == SERVICE_DEFS[what][1]
             pidfile  == SERVICE_DEFS[what][2]
             proc     == pgrep(world, procname, pidfile)
         IN  IF proc.returncode = 0
             THEN <<TRUE, parse_pids(strip_split(proc.data))>>
             ELSE <<FALSE, <<>>>>
    ELSE <<TRUE, <<>>>>

\* ServiceService._started(what) without a notify thread: <<running, pids>>
_started(what, world) ==
    IF what \in DOMAIN SERVICE_DEFS
    THEN LET procname == SERVICE_DEFS[what][1]
             pidfile  == SERVICE_DEFS[what][2]
             proc     == pgrep(world, procname, pidfile)
         IN  IF proc.returncode = 0
             THEN <<TRUE, parse_pids(strip_split(proc.data))>>
             ELSE <<FALSE, <<>>>>
    ELSE <<FALSE, <<>>>>

\* the state _get_status chooses from (running, enable)
_get_status_state_swapped(running, enable) ==
    IF running THEN "RUNNING" ELSE IF enable THEN "STOPPED" ELSE "CRASHED"

_get_status_state(running, enable) ==
    IF running THEN "RUNNING" ELSE IF enable THEN "CRASHED" ELSE "STOPPED"

\* ServiceService._get_status: the entry with 'state' and 'pids' set
_get_status(service, world) ==
    LET st == _started(service.service, world)
    IN  [service EXCEPT !.state = _get_status_state(st[1], service.enable),
                        !.pids  = st[2]]

(***************************************************************************)
(* State.                                                                  *)
(*                                                                         *)
(* query():                                                                *)
(*   entries   the dicts datastore.query returned, by position; a greenlet *)
(*             and result() write 'state' and 'pids' into them in place    *)
(*   gstate    each greenlet: "running", "ok" (returned), "raised"         *)
(*   order     the greenlets in the order they ended                       *)
(*   pc        where query() is: "joinall", "map", "done", "failed"        *)
(*   now       time units since the greenlets were spawned                 *)
(*   out       the list map() has built so far: references to entries      *)
(*   ret       what the caller received: the statuses as they were when    *)
(*             query() returned                                            *)
(*   atJoin    gstate as it was when joinall returned                      *)
(*   atReturn  gstate as it was when query() returned                      *)
(*   produced  what each finished _get_status call computed                *)
(* _get_status alone:                                                      *)
(*   resolve   the entry, the machine and the entry returned               *)
(* start(), stop(), restart(), reload():                                   *)
(*   action    the method called, and what the service it is called with   *)
(*   verb      the method now running: reload() calls restart()            *)
(*   outer     "reload" while restart() runs inside reload(), else None    *)
(*   ppc       where the running method is                                 *)
(*   cmdidx    the next command of _simplecmd's sequence                   *)
(*   sn        the StartNotify thread of the running method (0: None)      *)
(*   target    the service _started is asked about, jn the thread it joins *)
(*   threads   the StartNotify threads started so far                      *)
(*   world     the machine: the process table and the pid files            *)
(*   log       what the call has done so far, in order                     *)
(*   retval    what the call returned                                      *)
(* calls of the methods that overlap:                                      *)
(*   calls     each call: its verb and service, where it is, its           *)
(*             StartNotify thread sn (0: None) and the thread it has       *)
(*             joined (0: none yet)                                        *)
(***************************************************************************)
VARIABLES entries, gstate, order, pc, now, out, ret, atJoin, atReturn, produced,
          resolve,
          action, what, verb, outer, ppc, cmdidx, sn, target, jn, threads, world,
          log, retval,
          calls

qvars == <<entries, gstate, order, pc, now, out, ret, atJoin, atReturn, produced>>
rvars == <<resolve>>
pvars == <<action, what, verb, outer, ppc, cmdidx, sn, target, jn, threads, world,
           log, retval,
           calls>>
vars  == <<entries, gstate, order, pc, now, out, ret, atJoin, atReturn, produced,
           resolve,
           action, what, verb, outer, ppc, cmdidx, sn, target, jn, threads, world,
           log, retval,
           calls>>

N == Len(entries)

\* sequences of distinct names, at most n long
RECURSIVE NameSeqs(_)
NameSeqs(n) ==
    IF n = 0 THEN {<<>>}
    ELSE LET shorter == NameSeqs(n - 1)
         IN  shorter \cup
             { Append(s, x) : <<s, x>> \in
                 { t \in shorter \X RowNames :
                     /\ Len(t[1]) = n - 1
                     /\ \A j \in 1..Len(t[1]) : t[1][j] # t[2] } }

\* a row of services.services, before 'state' and 'pids' are set
Row(name, enable) ==
    [service |-> name, enable |-> enable, state |-> None, pids |-> <<>>]

\* the machine with no process and no pid file
EmptyWorld == [procs |-> {}, files |-> [f \in Pidfiles |-> Absent]]

\* no value returned yet
NoValue == [type |-> "none", running |-> FALSE, pids |-> <<>>]

ResolveIdle ==
    [entry |-> Row("ssh", FALSE), world |-> EmptyWorld,
     result |-> Row("ssh", FALSE), done |-> FALSE]

(***************************************************************************)
(* query()                                                                 *)
(***************************************************************************)
\* the lists of rows datastore.query may return
EntryLists ==
    UNION { { [j \in 1..Len(s) |-> Row(s[j], e[j])] : e \in [1..Len(s) -> BOOLEAN] }
            : s \in NameSeqs(MaxServices) }

\* the greenlets joinall found finished, in the order they finished
joinall_ready == order

\* the greenlets that have ended, in the order of services
jobs_keys_ended == SelectSeq([j \in 1..N |-> j], LAMBDA g : gstate[g] # "running")

\* the keys of jobs, in the order map() walks them: the dict keeps the order
\* in which the comprehension over services inserted them
jobs_keys == [j \in 1..N |-> j]

\* greenlet.value is None: the greenlet has not returned (it still runs, or
\* it raised)
value_is_None(g) == gstate[g] # "ok"

joinall_no_timeout(t) == FALSE

\* joinall(..., timeout=15): the wait ends at 15 time units
joinall_timed_out(t) == t >= Timeout

raise_error_set == TRUE

\* joinall's raise_error argument, left at its default
raise_error == FALSE

result_never_unknown(g) == entries

\* result(greenlet): the entries after the call; it returns entry g either way
result(g) ==
    IF value_is_None(g)
    THEN [entries EXCEPT ![g].state = "UNKNOWN", ![g].pids = <<>>]
    ELSE entries

\* _get_status of entry i waits for pgrep; for a name that is not in
\* SERVICE_DEFS it returns without waiting for anything
blocks(i) == entries[i].service \in DOMAIN SERVICE_DEFS

\* every greenlet has run up to its first wait: those that wait for nothing
\* have returned
all_started == \A i \in 1..N : gstate[i] = "running" => blocks(i)

QInit ==
    /\ entries \in EntryLists
    /\ gstate = [j \in 1..Len(entries) |-> "running"]
    /\ order = <<>>
    /\ pc = "joinall"
    /\ now = 0
    /\ out = <<>>
    /\ ret = <<>>
    /\ atJoin = [j \in 1..Len(entries) |-> "running"]
    /\ atReturn = [j \in 1..Len(entries) |-> "running"]
    /\ produced = [j \in 1..Len(entries) |-> <<None, <<>>>>]

\* the greenlet of entry i reads the machine and returns from _get_status
Complete(i) ==
    /\ gstate[i] = "running"
    /\ blocks(i) => all_started
    /\ \E service \in { _get_status(entries[i], w) : w \in Worlds } :
         /\ entries' = [entries EXCEPT ![i] = service]
         /\ produced' = [produced EXCEPT ![i] = <<service.state, service.pids>>]
    /\ gstate' = [gstate EXCEPT ![i] = "ok"]
    /\ order' = Append(order, i)
    /\ UNCHANGED <<pc, now, out, ret, atJoin, atReturn, resolve, pvars>>

\* the greenlet of entry i ends with an exception (Popen raises)
Raise(i) ==
    /\ gstate[i] = "running"
    /\ blocks(i)
    /\ all_started
    /\ gstate' = [gstate EXCEPT ![i] = "raised"]
    /\ order' = Append(order, i)
    /\ UNCHANGED <<entries, produced, pc, now, out, ret, atJoin, atReturn, resolve, pvars>>

\* one time unit passes while joinall waits
Tick ==
    /\ pc = "joinall"
    /\ \E i \in 1..N : gstate[i] = "running"
    /\ all_started
    /\ ~ joinall_timed_out(now)
    /\ now < MaxClock
    /\ now' = now + 1
    /\ UNCHANGED <<entries, gstate, order, pc, out, ret, atJoin, atReturn, produced,
                   resolve, pvars>>

\* joinall returns: every greenlet has ended, or the timeout has passed
JoinAll ==
    /\ pc = "joinall"
    /\ \/ \A i \in 1..N : gstate[i] # "running"
       \/ joinall_timed_out(now) /\ all_started
    /\ pc' = IF raise_error /\ \E i \in 1..N : gstate[i] = "raised"
             THEN "failed"
             ELSE "map"
    /\ atJoin' = gstate
    /\ UNCHANGED <<entries, gstate, order, now, out, ret, atReturn, produced, resolve, pvars>>

\* Group().map calls result() on the next key of jobs
Result ==
    /\ pc = "map"
    /\ Len(out) < Len(jobs_keys)
    /\ LET g == jobs_keys[Len(out) + 1]
       IN  /\ entries' = result(g)
           /\ out' = Append(out, g)
    /\ UNCHANGED <<gstate, order, pc, now, ret, atJoin, atReturn, produced, resolve, pvars>>

\* query() returns the list (no filters: filter_list keeps every row)
Return ==
    /\ pc = "map"
    /\ Len(out) >= Len(jobs_keys)
    /\ pc' = "done"
    /\ ret' = [j \in 1..Len(out) |-> entries[out[j]]]
    /\ atReturn' = gstate
    /\ UNCHANGED <<entries, gstate, order, now, out, atJoin, produced, resolve, pvars>>

\* no call of start, stop, restart or reload
PIdle ==
    /\ action = None
    /\ what = None
    /\ verb = None
    /\ outer = None
    /\ ppc = "idle"
    /\ cmdidx = 1
    /\ sn = 0
    /\ target = None
    /\ jn = 0
    /\ threads = <<>>
    /\ world = EmptyWorld
    /\ log = <<>>
    /\ retval = NoValue
    /\ calls = <<>>

Init ==
    /\ QInit
    /\ resolve = ResolveIdle
    /\ PIdle

Next ==
    \/ \E i \in 1..N : Complete(i)
    \/ \E i \in 1..N : Raise(i)
    \/ Tick
    \/ JoinAll
    \/ Result
    \/ Return

Spec == Init /\ [][Next]_vars

(***************************************************************************)
(* _get_status on its own: every row against every machine.                *)
(***************************************************************************)
RInit ==
    /\ entries = <<>>
    /\ gstate = <<>>
    /\ order = <<>>
    /\ pc = "idle"
    /\ now = 0
    /\ out = <<>>
    /\ ret = <<>>
    /\ atJoin = <<>>
    /\ atReturn = <<>>
    /\ produced = <<>>
    /\ \E name \in ServiceNames, enable \in BOOLEAN, w \in Worlds :
         resolve = [entry |-> Row(name, enable), world |-> w,
                    result |-> Row(name, enable), done |-> FALSE]
    /\ PIdle

Resolve ==
    /\ ~ resolve.done
    /\ resolve' = [resolve EXCEPT !.result = _get_status(resolve.entry, resolve.world),
                                  !.done = TRUE]
    /\ UNCHANGED <<qvars, pvars>>

RNext == Resolve

SpecResolve == RInit /\ [][RNext]_vars

(***************************************************************************)
(* Properties of query().                                                  *)
(***************************************************************************)
\* the status query() returned at position j is UNKNOWN with no pids
RetUnknown(j) == ret[j].state = "UNKNOWN" /\ ret[j].pids = <<>>

\* the status query() returned at position j is what _get_status computed
RetResolved(j) == <<ret[j].state, ret[j].pids>> = produced[out[j]]

\* C1: when query() has returned, the status at each position of the result
\* is the status of the service at that position of the input, in whatever
\* order the greenlets ended.
C1_OutputInInputOrder ==
    pc = "done" =>
        \A j \in 1..Len(ret) :
            /\ j <= N
            /\ out[j] = j
            /\ ret[j].service = entries[j].service

\* two services, the second resolved before the first, both before the return
C1_Witness ==
    /\ pc = "done"
    /\ N = 2
    /\ order = <<2, 1>>
    /\ atReturn = <<"ok", "ok">>
    /\ Len(ret) = 2

\* C2: the clock of query() never passes 15 time units after the spawn, and
\* at 15 time units joinall returns whatever the greenlets are doing; the
\* deadline is one for all the greenlets.
C2_ReturnsByDeadline ==
    /\ now <= Timeout
    /\ (pc = "joinall" /\ now = Timeout => ENABLED JoinAll)

\* query() returned at the deadline with two resolutions that never ended
C2_Witness ==
    /\ pc = "done"
    /\ now = Timeout
    /\ N = 2
    /\ \A i \in 1..N : gstate[i] = "running"

C4_UnknownOnlyOnTimeout ==
    pc = "done" =>
        \A j \in 1..Len(ret) :
            ret[j].state = "UNKNOWN" =>
                /\ atJoin[out[j]] = "running"
                /\ now >= Timeout

\* C5: a status that query() returned as UNKNOWN with no pids stays so.
C5_UnknownStays ==
    pc = "done" =>
        \A j \in 1..Len(ret) :
            RetUnknown(j) =>
                /\ entries[out[j]].state = "UNKNOWN"
                /\ entries[out[j]].pids = <<>>

\* C6: when query() has returned, the result is as long as the input and each
\* input service is at exactly one position of it.
C6_OnePerService ==
    pc = "done" =>
        /\ Len(ret) = N
        /\ \A i \in 1..N : Cardinality({ j \in 1..Len(out) : out[j] = i }) = 1

\* two services, one resolved and one that never ended
C6_Witness ==
    /\ pc = "done"
    /\ N = 2
    /\ atReturn = <<"running", "ok">>
    /\ Len(ret) = 2

\* C7: query() never ends with an error and, once every greenlet has run up
\* to its first wait, can always go on without any resolution ending; a
\* service whose resolution raised or is still running at the return
\* is reported UNKNOWN, and every other service is reported as resolved.
C7_NeverFailsAsAWhole ==
    /\ pc # "failed"
    /\ (pc \in {"joinall", "map"} /\ all_started) =>
           ENABLED (Tick \/ JoinAll \/ Result \/ Return)
    /\ ~ all_started => \E i \in 1..N : ~ blocks(i) /\ ENABLED Complete(i)
    /\ pc = "done" =>
         \A j \in 1..Len(ret) :
            atReturn[out[j]] # "ok" =>
                /\ RetUnknown(j)
                /\ \A h \in 1..Len(ret) :
                      (h # j /\ atReturn[out[h]] = "ok") => RetResolved(h)

\* the first resolution raised, the second returned RUNNING
C7_Witness ==
    /\ pc = "done"
    /\ N = 2
    /\ atReturn = <<"raised", "ok">>
    /\ RetUnknown(1)
    /\ ret[2].state = "RUNNING"

(***************************************************************************)
(* Properties of _get_status.                                              *)
(***************************************************************************)
\* C8: the entry _get_status returns is RUNNING with the pids found when
\* _started finds a process, CRASHED with no pids when it finds none and the
\* service is enabled, STOPPED with no pids when it finds none and the
\* service is not enabled; the rest of the entry is unchanged.
C8_Classification ==
    resolve.done =>
        LET st == _started(resolve.entry.service, resolve.world)
            r  == resolve.result
        IN  /\ r.service = resolve.entry.service
            /\ r.enable = resolve.entry.enable
            /\ st[1] => r.state = "RUNNING" /\ r.pids = st[2] /\ st[2] # <<>>
            /\ (~ st[1] /\ resolve.entry.enable) =>
                   r.state = "CRASHED" /\ r.pids = <<>>
            /\ (~ st[1] /\ ~ resolve.entry.enable) =>
                   r.state = "STOPPED" /\ r.pids = <<>>

\* an enabled ssh with processes running, none of them the one of its pid file
C8_Witness ==
    /\ resolve.done
    /\ resolve.entry.service = "ssh"
    /\ resolve.entry.enable
    /\ resolve.world.procs # {}
    /\ resolve.result.state = "CRASHED"

(***************************************************************************)
(* StartNotify                                                             *)
(*                                                                         *)
(* A thread is [verb, pidfile, tries, pc]; pc is                           *)
(*   "run"    started, before the first statement of run()                 *)
(*   "loop"   at the test of the while loop                                *)
(*   "cond"   after time.sleep(1) and, for start and restart, after the    *)
(*            first os.path.exists and the time.sleep(0.1) it may cause;   *)
(*            before the os.path.exists of the break condition             *)
(*   "stat"   before the os.stat of the break condition                    *)
(*   "done"   run() has returned; "died": run() has raised                 *)
(* The first os.path.exists of start and restart decides only whether the  *)
(* thread sleeps another 0.1, so it is no step of its own.                 *)
(***************************************************************************)
exists(w, pidfile) == w.files[pidfile] # Absent

st_size_positive(w, pidfile) == w.files[pidfile] \notin {Absent, Empty}

retry_forgets_count(th) == [th EXCEPT !.pc = "loop"]

retry_counts_two(th) == [th EXCEPT !.tries = @ + 2, !.pc = "loop"]

\* the thread after tries += 1
retry(th) == [th EXCEPT !.tries = @ + 1, !.pc = "loop"]

run_without_pidfile_test(th, w) ==
    CASE th.pc = "run" -> [th EXCEPT !.tries = 1, !.pc = "loop"]
      [] th.pc = "loop" ->
            IF ~ (th.tries < MaxTries) THEN [th EXCEPT !.pc = "done"]
            ELSE IF th.pidfile = None THEN [th EXCEPT !.pc = "died"]
            ELSE IF th.verb \in {"start", "restart"} THEN [th EXCEPT !.pc = "cond"]
            ELSE IF th.verb = "stop" /\ ~ exists(w, th.pidfile)
                 THEN [th EXCEPT !.pc = "done"]
                 ELSE retry(th)
      [] th.pc = "cond" ->
            IF exists(w, th.pidfile) THEN [th EXCEPT !.pc = "stat"]
            ELSE retry(th)
      [] th.pc = "stat" ->
            IF ~ exists(w, th.pidfile) THEN [th EXCEPT !.pc = "died"]
            ELSE IF st_size_positive(w, th.pidfile) THEN [th EXCEPT !.pc = "done"]
            ELSE retry(th)

run_raises_when_exhausted(th, w) ==
    CASE th.pc = "run" ->
            IF th.pidfile = None THEN [th EXCEPT !.pc = "done"]
            ELSE [th EXCEPT !.tries = 1, !.pc = "loop"]
      [] th.pc = "loop" ->
            IF ~ (th.tries < MaxTries) THEN [th EXCEPT !.pc = "died"]
            ELSE IF th.verb \in {"start", "restart"} THEN [th EXCEPT !.pc = "cond"]
            ELSE IF th.verb = "stop" /\ ~ exists(w, th.pidfile)
                 THEN [th EXCEPT !.pc = "done"]
                 ELSE retry(th)
      [] th.pc = "cond" ->
            IF exists(w, th.pidfile) THEN [th EXCEPT !.pc = "stat"]
            ELSE retry(th)
      [] th.pc = "stat" ->
            IF ~ exists(w, th.pidfile) THEN [th EXCEPT !.pc = "died"]
            ELSE IF st_size_positive(w, th.pidfile) THEN [th EXCEPT !.pc = "done"]
            ELSE retry(th)

\* one step of StartNotify.run on the machine w
run(th, w) ==
    CASE th.pc = "run" ->
            IF th.pidfile = None THEN [th EXCEPT !.pc = "done"]
            ELSE [th EXCEPT !.tries = 1, !.pc = "loop"]
      [] th.pc = "loop" ->
            IF ~ (th.tries < MaxTries) THEN [th EXCEPT !.pc = "done"]
            ELSE IF th.verb \in {"start", "restart"} THEN [th EXCEPT !.pc = "cond"]
            ELSE IF th.verb = "stop" /\ ~ exists(w, th.pidfile)
                 THEN [th EXCEPT !.pc = "done"]
                 ELSE retry(th)
      [] th.pc = "cond" ->
            IF exists(w, th.pidfile) THEN [th EXCEPT !.pc = "stat"]
            ELSE retry(th)
      [] th.pc = "stat" ->
            IF ~ exists(w, th.pidfile) THEN [th EXCEPT !.pc = "died"]
            ELSE IF st_size_positive(w, th.pidfile) THEN [th EXCEPT !.pc = "done"]
            ELSE retry(th)

\* the thread has ended: join() returns
ended(th) == th.pc \in {"done", "died"}

(***************************************************************************)
(* The methods _<action>_<service> of the services of the model, as the    *)
(* commands they hand to _system.                                          *)
(***************************************************************************)
\* "/usr/sbin/service " + name + " " + arg
usr_sbin_service(name, arg) == <<"/usr/sbin/service", name, arg>>

Methods ==
    (<<"start", "ssh">> :>
        << usr_sbin_service("ix-sshd", "quietstart"), usr_sbin_service("ix_register", "reload"),
           usr_sbin_service("openssh", "start"), usr_sbin_service("ix_sshd_save_keys", "quietstart") >>)
    @@ (<<"stop", "ssh">> :>
        << usr_sbin_service("openssh", "forcestop"), usr_sbin_service("ix_register", "reload") >>)
    @@ (<<"restart", "ssh">> :>
        << usr_sbin_service("ix-sshd", "quietstart"), usr_sbin_service("openssh", "forcestop"),
           usr_sbin_service("ix_register", "reload"), usr_sbin_service("openssh", "restart"),
           usr_sbin_service("ix_sshd_save_keys", "quietstart") >>)
    @@ (<<"reload", "ssh">> :>
        << usr_sbin_service("ix-sshd", "quietstart"), usr_sbin_service("ix_register", "reload"),
           usr_sbin_service("openssh", "reload"), usr_sbin_service("ix_sshd_save_keys", "quietstart") >>)
    @@ (<<"restart", "dynamicdns">> :>
        << usr_sbin_service("ix-inadyn", "quietstart"), usr_sbin_service("inadyn-mt", "forcestop"),
           usr_sbin_service("inadyn-mt", "restart") >>)
    @@ (<<"restart", "django">> :> << usr_sbin_service("django", "restart") >>)
    @@ (<<"load", "afp">> :>
        << usr_sbin_service("ix-afpd", "quietstart"), usr_sbin_service("netatalk", "quietstart") >>)
    @@ (<<"start", "ups">> :>
        << usr_sbin_service("ix-ups", "quietstart"), usr_sbin_service("nut", "start"),
           usr_sbin_service("nut_upsmon", "start"), usr_sbin_service("nut_upslog", "start") >>)
    @@ (<<"stop", "ups">> :>
        << usr_sbin_service("nut_upslog", "forcestop"), usr_sbin_service("nut_upsmon", "forcestop"),
           usr_sbin_service("nut", "forcestop") >>)
    @@ (<<"restart", "ups">> :>
        << usr_sbin_service("ix-ups", "quietstart"), usr_sbin_service("nut", "forcestop"),
           usr_sbin_service("nut_upsmon", "forcestop"), usr_sbin_service("nut_upslog", "forcestop"),
           usr_sbin_service("nut", "restart"), usr_sbin_service("nut_upsmon", "restart"),
           usr_sbin_service("nut_upslog", "restart") >>)

\* the services with a method _started_<service>
StartedMethods == {"ups"}

\* _simplecmd(action, what) raises ValueError("Internal error: Unknown command")
unknown_command(act, name) ==
    /\ <<act, name>> \notin DOMAIN Methods
    /\ act \notin {"start", "stop", "restart", "reload"}

_simplecmd_restart_without_forcestop(act, name) ==
    IF <<act, name>> \in DOMAIN Methods
    THEN Methods[<<act, name>>]
    ELSE LET procname == IF name \in DOMAIN SERVICE_DEFS /\ SERVICE_DEFS[name][1] # None
                         THEN SERVICE_DEFS[name][1]
                         ELSE name
         IN  IF unknown_command(act, name)
             THEN << >>
             ELSE << usr_sbin_service(procname, act) >>

_simplecmd_both_paths(act, name) ==
    LET procname == IF name \in DOMAIN SERVICE_DEFS /\ SERVICE_DEFS[name][1] # None
                    THEN SERVICE_DEFS[name][1]
                    ELSE name
        generic  == IF act = "restart"
                    THEN << usr_sbin_service(procname, "forcestop"),
                            usr_sbin_service(procname, act) >>
                    ELSE IF act \notin {"start", "stop", "restart", "reload"}
                         THEN << >>
                         ELSE << usr_sbin_service(procname, act) >>
    IN  IF <<act, name>> \in DOMAIN Methods
        THEN generic \o Methods[<<act, name>>]
        ELSE generic

\* _simplecmd(action, what): the commands it runs, in order
_simplecmd(act, name) ==
    IF <<act, name>> \in DOMAIN Methods
    THEN Methods[<<act, name>>]
    ELSE LET procname == IF name \in DOMAIN SERVICE_DEFS /\ SERVICE_DEFS[name][1] # None
                         THEN SERVICE_DEFS[name][1]
                         ELSE name
         IN  IF act = "restart"
             THEN << usr_sbin_service(procname, "forcestop"), usr_sbin_service(procname, act) >>
             ELSE IF unknown_command(act, name)
                  THEN << >>
                  ELSE << usr_sbin_service(procname, act) >>

(***************************************************************************)
(* The machines a call on a service runs on: the pid files and the         *)
(* processes of that service come and go, the rest stays away.             *)
(***************************************************************************)
DaemonPid ==
    [ ssh |-> "1", ups |-> "5", upsmon |-> "6", dynamicdns |-> "7" ]

\* the services whose daemons a call on name touches; the daemons of ups
\* keep their pid files: each runs exactly while its pid file is there, and
\* the file then holds its pid
Touched(name) ==
    CASE name = "ups" -> {"ups", "upsmon"}
      [] name \in DOMAIN SERVICE_DEFS -> {name}
      [] OTHER -> {}

MachinesOf(name) ==
    LET svcs  == Touched(name)
        procs == { [pid |-> PidOf(DaemonPid[x]), name |-> SERVICE_DEFS[x][1]] : x \in svcs }
        files == { SERVICE_DEFS[x][2] : x \in svcs } \ {None}
        owner(f) == CHOOSE x \in svcs : SERVICE_DEFS[x][2] = f
        all   == { [procs |-> ps,
                    files |-> [f \in Pidfiles |-> IF f \in files THEN fs[f] ELSE Absent]] :
                     ps \in SUBSET procs,
                     fs \in { g \in [files -> {Absent, Empty, "1", "5", "6"}] :
                                \A f \in files :
                                   g[f] \in {Absent, Empty, DaemonPid[owner(f)]} } }
    IN  IF name = "ups"
        THEN { m \in all :
                 \A p \in procs :
                    \E x \in svcs :
                       /\ SERVICE_DEFS[x][1] = p.name
                       /\ m.files[SERVICE_DEFS[x][2]] # Empty
                       /\ p \in m.procs <=> m.files[SERVICE_DEFS[x][2]] = DaemonPid[x] }
        ELSE all

(***************************************************************************)
(* start(), stop(), restart(), reload()                                    *)
(***************************************************************************)
Verbs == {"start", "stop", "restart", "reload"}

\* an entry of log: the method that did it, what it did, the thread it
\* concerns (0: none) and the command it ran (<<>>: none)
Event(by, ev, t, cmd) == [by |-> by, ev |-> ev, t |-> t, cmd |-> cmd]

after_hook_no_notify(v) == "cmd"

\* what a method does after call_hook: reload goes on to _simplecmd, the
\* others to _started_notify
after_hook(v) == IF v = "reload" THEN "cmd" ELSE "notify"

on_raise_propagate(v) == "failed"

on_raise_always_restart(v) == "restart"

\* what a method does when _simplecmd raises: reload's except clause calls
\* restart, the others let the exception out
on_raise(v) == IF v = "reload" THEN "restart" ELSE "failed"

\* the calls of the model: every verb on every service, but only start and
\* stop on ups
PerformCalls ==
    { c \in Verbs \X PerformNames : c[2] = "ups" => c[1] \in {"start", "stop"} }

PInit ==
    /\ \E c \in PerformCalls : action = c[1] /\ what = c[2]
    /\ verb = action
    /\ outer = None
    /\ ppc = "hook"
    /\ cmdidx = 1
    /\ sn = 0
    /\ target = None
    /\ jn = 0
    /\ threads = <<>>
    /\ world \in MachinesOf(what)
    /\ log = <<>>
    /\ retval = NoValue

\* self.middleware.call_hook('service.pre_<verb>', service)
Hook ==
    /\ ppc = "hook"
    /\ log' = Append(log, Event(verb, "hook", 0, <<>>))
    /\ ppc' = after_hook(verb)
    /\ cmdidx' = 1
    /\ UNCHANGED <<qvars, rvars, calls, action, what, verb, outer, sn, target, jn, threads, world, retval>>

\* sn = self._started_notify(verb, service)
Notify ==
    /\ ppc = "notify"
    /\ IF what \in DOMAIN SERVICE_DEFS
       THEN /\ threads' = Append(threads,
                   [verb |-> verb, pidfile |-> SERVICE_DEFS[what][2],
                    tries |-> 1, pc |-> "run"])
            /\ sn' = Len(threads) + 1
            /\ log' = Append(log, Event(verb, "watch", Len(threads) + 1, <<>>))
       ELSE /\ sn' = 0
            /\ UNCHANGED <<threads, log>>
    /\ ppc' = "cmd"
    /\ cmdidx' = 1
    /\ UNCHANGED <<qvars, rvars, calls, action, what, verb, outer, target, jn, world, retval>>

\* the next _system call of _simplecmd returns (its exit status is dropped)
Command ==
    /\ ppc = "cmd"
    /\ cmdidx <= Len(_simplecmd(verb, what))
    /\ log' = Append(log, Event(verb, "exec", 0, _simplecmd(verb, what)[cmdidx]))
    /\ cmdidx' = cmdidx + 1
    /\ UNCHANGED <<qvars, rvars, calls, action, what, verb, outer, ppc, sn, target, jn, threads, world,
                   retval>>

\* the next _system call of _simplecmd raises (Popen fails)
CommandRaises ==
    /\ ppc = "cmd"
    /\ cmdidx <= Len(_simplecmd(verb, what))
    /\ log' = Append(log, Event(verb, "raise", 0, <<>>))
    /\ IF on_raise(verb) = "restart"
       THEN /\ verb' = "restart"
            /\ outer' = verb
            /\ ppc' = "hook"
            /\ sn' = 0
       ELSE /\ ppc' = "failed"
            /\ UNCHANGED <<verb, outer, sn>>
    /\ cmdidx' = 1
    /\ UNCHANGED <<qvars, rvars, calls, action, what, target, jn, threads, world, retval>>

\* _simplecmd has returned
CommandsDone ==
    /\ ppc = "cmd"
    /\ ~ unknown_command(verb, what)
    /\ cmdidx > Len(_simplecmd(verb, what))
    /\ ppc' = "started"
    /\ UNCHANGED <<qvars, rvars, calls, action, what, verb, outer, cmdidx, sn, target, jn, threads, world,
                   log, retval>>

\* started(what, sn) without a method _started_<what>: _started(what, sn)
StartedGeneric ==
    /\ ppc = "started"
    /\ what \notin StartedMethods
    /\ target' = what
    /\ jn' = sn
    /\ ppc' = IF what \in DOMAIN SERVICE_DEFS /\ sn # 0 THEN "join" ELSE "pgrep"
    /\ UNCHANGED <<qvars, rvars, calls, action, what, verb, outer, cmdidx, sn, threads, world, log, retval>>

\* started('ups', sn): _started_ups reads ups_mode, starts a thread of its
\* own on upsmon and hands that one to _started
StartedUps ==
    /\ ppc = "started"
    /\ what = "ups"
    /\ \E mode \in {"master", "slave"} :
         target' = IF mode = "master" THEN "ups" ELSE "upsmon"
    /\ threads' = Append(threads,
            [verb |-> "start", pidfile |-> SERVICE_DEFS["upsmon"][2],
             tries |-> 1, pc |-> "run"])
    /\ jn' = Len(threads) + 1
    /\ log' = Append(log, Event(verb, "watch_ups", Len(threads) + 1, <<>>))
    /\ ppc' = "join"
    /\ UNCHANGED <<qvars, rvars, calls, action, what, verb, outer, cmdidx, sn, world, retval>>

\* notify.join() returns
Join ==
    /\ ppc = "join"
    /\ ended(threads[jn])
    /\ log' = Append(log, Event(verb, "join", jn, <<>>))
    /\ ppc' = "pgrep"
    /\ UNCHANGED <<qvars, rvars, calls, action, what, verb, outer, cmdidx, sn, target, jn, threads, world,
                   retval>>

\* the method returns v; restart() called by reload() returns into reload(),
\* which goes on to its own started(service)
return(v) ==
    IF outer = "reload"
    THEN /\ verb' = "reload"
         /\ outer' = None
         /\ sn' = 0
         /\ ppc' = "started"
         /\ UNCHANGED retval
    ELSE /\ ppc' = "done"
         /\ retval' = v
         /\ UNCHANGED <<verb, outer, sn>>

\* _started looks for the process and the method returns what it found:
\* started() hands on the boolean, _started_ups the whole tuple
Pgrep ==
    /\ ppc = "pgrep"
    /\ log' = Append(log, Event(verb, "resolve", 0, <<>>))
    /\ LET st == _started(target, world)
       IN  return([type |-> IF what \in StartedMethods THEN "tuple" ELSE "bool",
                   running |-> st[1],
                   pids |-> IF what \in StartedMethods THEN st[2] ELSE <<>>])
    /\ UNCHANGED <<qvars, rvars, calls, action, what, cmdidx, target, jn, threads, world>>

\* Popen raises in _started
PgrepRaises ==
    /\ ppc = "pgrep"
    /\ target \in DOMAIN SERVICE_DEFS
    /\ log' = Append(log, Event(verb, "pgrep_raise", 0, <<>>))
    /\ ppc' = "failed"
    /\ UNCHANGED <<qvars, rvars, calls, action, what, verb, outer, cmdidx, sn, target, jn, threads, world,
                   retval>>

\* thread t takes one step of run()
ThreadStep(t) ==
    /\ ~ ended(threads[t])
    /\ threads' = [threads EXCEPT ![t] = run(@, world)]
    /\ UNCHANGED <<qvars, rvars, calls, action, what, verb, outer, ppc, cmdidx, sn, target, jn, world, log,
                   retval>>

\* a daemon writes or removes its pid file, a process comes or goes
MachineChanges ==
    /\ ppc \notin {"done", "failed"} \/ \E t \in 1..Len(threads) : ~ ended(threads[t])
    /\ world' \in MachinesOf(what) \ {world}
    /\ UNCHANGED <<qvars, rvars, calls, action, what, verb, outer, ppc, cmdidx, sn, target, jn, threads,
                   log, retval>>

PNext ==
    \/ Hook
    \/ Notify
    \/ Command
    \/ CommandRaises
    \/ CommandsDone
    \/ StartedGeneric
    \/ StartedUps
    \/ Join
    \/ Pgrep
    \/ PgrepRaises
    \/ \E t \in 1..Len(threads) : ThreadStep(t)
    \/ MachineChanges

PerformInit ==
    /\ entries = <<>>
    /\ gstate = <<>>
    /\ order = <<>>
    /\ pc = "idle"
    /\ now = 0
    /\ out = <<>>
    /\ ret = <<>>
    /\ atJoin = <<>>
    /\ atReturn = <<>>
    /\ produced = <<>>
    /\ resolve = ResolveIdle
    /\ calls = <<>>
    /\ PInit

SpecPerform == PerformInit /\ [][PNext]_vars

(***************************************************************************)
(* Two calls of start() or stop() on the same service that overlap: the    *)
(* server runs each call on a thread of its own. Each call is call_hook,   *)
(* _started_notify, _simplecmd, then in _started the join and pgrep; the   *)
(* commands are one step here and the machine changes as it likes. Which   *)
(* call is first in calls says nothing of which runs first, so the calls   *)
(* that start come first there.                                            *)
(***************************************************************************)
MaxCalls == 2

started_thread_reused(ths, pidfile) ==
    IF \E t \in 1..Len(ths) : ths[t].pidfile = pidfile
    THEN CHOOSE t \in 1..Len(ths) : ths[t].pidfile = pidfile
    ELSE Len(ths) + 1

\* sn = StartNotify(verb=verb, pidfile=pidfile); sn.start(): the place of
\* the thread in threads; every call of the constructor makes a new thread
started_thread(ths, pidfile) == Len(ths) + 1

OverlapInit ==
    /\ entries = <<>>
    /\ gstate = <<>>
    /\ order = <<>>
    /\ pc = "idle"
    /\ now = 0
    /\ out = <<>>
    /\ ret = <<>>
    /\ atJoin = <<>>
    /\ atReturn = <<>>
    /\ produced = <<>>
    /\ resolve = ResolveIdle
    /\ action = None
    /\ what \in {"ssh", "django"}
    /\ verb = None
    /\ outer = None
    /\ ppc = "idle"
    /\ cmdidx = 1
    /\ sn = 0
    /\ target = None
    /\ jn = 0
    /\ threads = <<>>
    /\ world \in MachinesOf(what)
    /\ log = <<>>
    /\ retval = NoValue
    /\ \E starts \in 0..MaxCalls :
          calls = [c \in 1..MaxCalls |->
                     [verb |-> IF c <= starts THEN "start" ELSE "stop", what |-> what,
                      pc |-> "notify", sn |-> 0, joined |-> 0]]

\* call c: sn = self._started_notify(verb, service)
OverlapNotify(c) ==
    /\ calls[c].pc = "notify"
    /\ IF calls[c].what \in DOMAIN SERVICE_DEFS
       THEN LET pidfile == SERVICE_DEFS[calls[c].what][2]
                t       == started_thread(threads, pidfile)
            IN  /\ threads' = IF t > Len(threads)
                              THEN Append(threads,
                                     [verb |-> calls[c].verb, pidfile |-> pidfile,
                                      tries |-> 1, pc |-> "run"])
                              ELSE threads
                /\ calls' = [calls EXCEPT ![c].sn = t, ![c].pc = "cmd"]
       ELSE /\ calls' = [calls EXCEPT ![c].sn = 0, ![c].pc = "cmd"]
            /\ UNCHANGED threads
    /\ UNCHANGED <<qvars, rvars, action, what, verb, outer, ppc, cmdidx, sn, target, jn, world,
                   log, retval>>

\* call c: self._simplecmd(verb, service) returns
OverlapSimplecmd(c) ==
    /\ calls[c].pc = "cmd"
    /\ calls' = [calls EXCEPT ![c].pc = "started"]
    /\ UNCHANGED <<qvars, rvars, action, what, verb, outer, ppc, cmdidx, sn, target, jn, threads,
                   world, log, retval>>

\* call c: _started: notify.join() returns once the thread has ended, then
\* pgrep and the call returns
OverlapStarted(c) ==
    /\ calls[c].pc = "started"
    /\ calls[c].sn # 0 => ended(threads[calls[c].sn])
    /\ calls' = [calls EXCEPT ![c].joined = calls[c].sn, ![c].pc = "done"]
    /\ UNCHANGED <<qvars, rvars, action, what, verb, outer, ppc, cmdidx, sn, target, jn, threads,
                   world, log, retval>>

\* a daemon writes or removes its pid file, a process comes or goes, while
\* a call or a thread still runs
OverlapMachineChanges ==
    /\ \/ \E c \in 1..Len(calls) : calls[c].pc # "done"
       \/ \E t \in 1..Len(threads) : ~ ended(threads[t])
    /\ world' \in MachinesOf(what) \ {world}
    /\ UNCHANGED <<qvars, rvars, calls, action, what, verb, outer, ppc, cmdidx, sn, target, jn,
                   threads, log, retval>>

OverlapNext ==
    \/ \E c \in 1..Len(calls) : OverlapNotify(c)
    \/ \E c \in 1..Len(calls) : OverlapSimplecmd(c)
    \/ \E c \in 1..Len(calls) : OverlapStarted(c)
    \/ \E t \in 1..Len(threads) : ThreadStep(t)
    \/ OverlapMachineChanges

SpecOverlap == OverlapInit /\ [][OverlapNext]_vars

(***************************************************************************)
(* The same method called twice in a row on a machine whose daemons obey   *)
(* the commands: when "service <script> start" or "restart" returns, the   *)
(* daemon of the script runs and has written its pid file; when "stop" or  *)
(* "forcestop" returns, the daemon is gone and so is its pid file. Every   *)
(* command succeeds and nothing else changes the machine.                  *)
(***************************************************************************)
\* the rc.d scripts that run a daemon of the model, and the service of
\* SERVICE_DEFS that daemon belongs to
Controls ==
    ("openssh" :> "ssh") @@ ("inadyn-mt" :> "dynamicdns") @@ ("nut" :> "ups")
    @@ ("nut_upsmon" :> "upsmon") @@ ("upsmon" :> "upsmon")

\* the machine after the command cmd, obeyed, has returned
Obeyed(w, cmd) ==
    IF cmd[2] \notin DOMAIN Controls THEN w
    ELSE LET x == Controls[cmd[2]]
             p == [pid |-> PidOf(DaemonPid[x]), name |-> SERVICE_DEFS[x][1]]
             f == SERVICE_DEFS[x][2]
         IN  IF cmd[3] \in {"start", "restart"}
             THEN [procs |-> w.procs \cup {p},
                   files |-> IF f = None THEN w.files
                             ELSE [w.files EXCEPT ![f] = DaemonPid[x]]]
             ELSE IF cmd[3] \in {"stop", "forcestop"}
             THEN [procs |-> w.procs \ {p},
                   files |-> IF f = None THEN w.files
                             ELSE [w.files EXCEPT ![f] = Absent]]
             ELSE w

TwiceCalls == {"start", "stop", "restart"} \X {"ssh", "dynamicdns", "upsmon", "django"}

TwiceInit ==
    /\ entries = <<>>
    /\ gstate = <<>>
    /\ order = <<>>
    /\ pc = "idle"
    /\ now = 0
    /\ out = <<>>
    /\ ret = <<>>
    /\ atJoin = <<>>
    /\ atReturn = <<>>
    /\ produced = <<>>
    /\ resolve = ResolveIdle
    /\ calls = <<>>
    /\ \E c \in TwiceCalls : action = c[1] /\ what = c[2]
    /\ verb = action
    /\ outer = None
    /\ ppc = "hook"
    /\ cmdidx = 1
    /\ sn = 0
    /\ target = None
    /\ jn = 0
    /\ threads = <<>>
    /\ world \in MachinesOf(what)
    /\ log = <<>>
    /\ retval = NoValue

\* the next _system call of _simplecmd returns and the daemon has obeyed
CommandObeyed ==
    /\ ppc = "cmd"
    /\ cmdidx <= Len(_simplecmd(verb, what))
    /\ log' = Append(log, Event(verb, "exec", 0, _simplecmd(verb, what)[cmdidx]))
    /\ world' = Obeyed(world, _simplecmd(verb, what)[cmdidx])
    /\ cmdidx' = cmdidx + 1
    /\ UNCHANGED <<qvars, rvars, calls, action, what, verb, outer, ppc, sn, target, jn, threads, retval>>

\* the caller keeps what the first call returned and calls the method again
CallAgain ==
    /\ ppc = "done"
    /\ \A i \in 1..Len(log) : log[i].ev # "return"
    /\ log' = Append(log, Event(verb, "return", 0,
                                 << IF retval.running THEN "True" ELSE "False" >>))
    /\ ppc' = "hook"
    /\ cmdidx' = 1
    /\ sn' = 0
    /\ retval' = NoValue
    /\ UNCHANGED <<qvars, rvars, calls, action, what, verb, outer, target, jn, threads, world>>

TwiceNext ==
    \/ Hook
    \/ Notify
    \/ CommandObeyed
    \/ CommandsDone
    \/ StartedGeneric
    \/ Join
    \/ Pgrep
    \/ \E t \in 1..Len(threads) : ThreadStep(t)
    \/ CallAgain

SpecTwice == TwiceInit /\ [][TwiceNext]_vars

(***************************************************************************)
(* One StartNotify thread alone, on a pid file that comes and goes as it   *)
(* likes. log keeps the steps of run():                                    *)
(*   "run"     the test of self._pidfile                                   *)
(*   "poll"    the while test passed: time.sleep(1), and for start and     *)
(*             restart the first os.path.exists with its time.sleep(0.1),  *)
(*             for stop the os.path.exists of the elif                     *)
(*   "exists"  the os.path.exists of the break condition                   *)
(*   "stat"    the os.stat of the break condition                          *)
(*   "giveup"  the while test failed                                       *)
(* and with each step whether it saw the condition of the verb ("met").    *)
(***************************************************************************)
\* the step the thread takes next, as log names it
StepName(th) ==
    CASE th.pc = "run" -> "run"
      [] th.pc = "loop" -> IF th.tries < MaxTries THEN "poll" ELSE "giveup"
      [] th.pc = "cond" -> "exists"
      [] th.pc = "stat" -> "stat"

\* the step the thread takes next sees the condition its verb waits for
Observes(th, w) ==
    \/ /\ th.verb \in {"start", "restart"}
       /\ th.pc = "stat"
       /\ exists(w, th.pidfile) /\ st_size_positive(w, th.pidfile)
    \/ /\ th.verb = "stop"
       /\ th.pc = "loop" /\ th.tries < MaxTries
       /\ ~ exists(w, th.pidfile)

WatchInit ==
    /\ entries = <<>>
    /\ gstate = <<>>
    /\ order = <<>>
    /\ pc = "idle"
    /\ now = 0
    /\ out = <<>>
    /\ ret = <<>>
    /\ atJoin = <<>>
    /\ atReturn = <<>>
    /\ produced = <<>>
    /\ resolve = ResolveIdle
    /\ calls = <<>>
    /\ action \in {"start", "restart", "stop"}
    /\ what \in {"ssh", "nfs"}
    /\ verb = action
    /\ outer = None
    /\ ppc = "idle"
    /\ cmdidx = 1
    /\ sn = 1
    /\ target = None
    /\ jn = 0
    /\ threads = << [verb |-> action, pidfile |-> SERVICE_DEFS[what][2],
                     tries |-> 1, pc |-> "run"] >>
    /\ world \in MachinesOf("ssh")
    /\ log = <<>>
    /\ retval = NoValue

\* thread t takes one step of run()
WatchStep(t) ==
    /\ ~ ended(threads[t])
    /\ threads' = [threads EXCEPT ![t] = run(@, world)]
    /\ log' = Append(log, Event(threads[t].verb, StepName(threads[t]), t,
                                 IF threads[t].pidfile # None /\ Observes(threads[t], world)
                                 THEN << "met" >> ELSE << >>))
    /\ UNCHANGED <<qvars, rvars, calls, action, what, verb, outer, ppc, cmdidx, sn, target, jn, world,
                   retval>>

\* the pid file is written, emptied or removed; sshd comes or goes
FileChanges ==
    /\ \E t \in 1..Len(threads) : ~ ended(threads[t])
    /\ world' \in MachinesOf("ssh") \ {world}
    /\ UNCHANGED <<qvars, rvars, calls, action, what, verb, outer, ppc, cmdidx, sn, target, jn, threads,
                   log, retval>>

WatchNext ==
    \/ \E t \in 1..Len(threads) : WatchStep(t)
    \/ FileChanges

SpecWatch == WatchInit /\ [][WatchNext]_vars

\* a started thread is scheduled again and again until run() ends
SpecWatchFair == SpecWatch /\ WF_vars(\E t \in 1..Len(threads) : WatchStep(t))

(***************************************************************************)
(* _simplecmd(action, what) alone, with any action: the verbs of the       *)
(* public methods and two that are none of them. "load" names the method   *)
(* _load_afp; no method is named _status_<service>.                        *)
(***************************************************************************)
AnyVerbs == Verbs \cup {"status", "load"}

SimplecmdCalls ==
    { c \in AnyVerbs \X {"ssh", "dynamicdns", "django", "ups", "afp"} :
        c[2] = "afp" => c[1] \notin Verbs }

SimplecmdInit ==
    /\ entries = <<>>
    /\ gstate = <<>>
    /\ order = <<>>
    /\ pc = "idle"
    /\ now = 0
    /\ out = <<>>
    /\ ret = <<>>
    /\ atJoin = <<>>
    /\ atReturn = <<>>
    /\ produced = <<>>
    /\ resolve = ResolveIdle
    /\ calls = <<>>
    /\ \E c \in SimplecmdCalls : action = c[1] /\ what = c[2]
    /\ verb = action
    /\ outer = None
    /\ ppc = "cmd"
    /\ cmdidx = 1
    /\ sn = 0
    /\ target = None
    /\ jn = 0
    /\ threads = <<>>
    /\ world = EmptyWorld
    /\ log = <<>>
    /\ retval = NoValue

\* raise ValueError("Internal error: Unknown command")
UnknownCommand ==
    /\ ppc = "cmd"
    /\ unknown_command(verb, what)
    /\ log' = Append(log, Event(verb, "ValueError", 0, <<>>))
    /\ ppc' = "failed"
    /\ UNCHANGED <<qvars, rvars, calls, action, what, verb, outer, cmdidx, sn, target, jn, threads, world,
                   retval>>

\* the next _system call raises and the exception leaves _simplecmd
SimplecmdRaises ==
    /\ ppc = "cmd"
    /\ cmdidx <= Len(_simplecmd(verb, what))
    /\ log' = Append(log, Event(verb, "raise", 0, <<>>))
    /\ ppc' = "failed"
    /\ UNCHANGED <<qvars, rvars, calls, action, what, verb, outer, cmdidx, sn, target, jn, threads, world,
                   retval>>

\* _simplecmd returns
SimplecmdReturns ==
    /\ ppc = "cmd"
    /\ ~ unknown_command(verb, what)
    /\ cmdidx > Len(_simplecmd(verb, what))
    /\ ppc' = "done"
    /\ UNCHANGED <<qvars, rvars, calls, action, what, verb, outer, cmdidx, sn, target, jn, threads, world,
                   log, retval>>

SimplecmdNext ==
    \/ Command
    \/ SimplecmdRaises
    \/ SimplecmdReturns
    \/ UnknownCommand

SpecSimplecmd == SimplecmdInit /\ [][SimplecmdNext]_vars

(***************************************************************************)
(* Properties of start(), stop(), restart(), reload().                     *)
(***************************************************************************)
\* the place of a step in the order hook, watcher start, adapter commands,
\* watcher start by _started_ups, join, status resolution
Rank(ev) ==
    CASE ev = "hook" -> 1
      [] ev = "watch" -> 2
      [] ev \in {"exec", "raise"} -> 3
      [] ev = "watch_ups" -> 4
      [] ev = "join" -> 5
      [] ev \in {"resolve", "pgrep_raise"} -> 6

\* the steps of one method come in the order of their ranks, and only
\* adapter commands repeat
InRankOrder ==
    \A i, j \in 1..Len(log) :
        (i < j /\ log[i].by = log[j].by) =>
            /\ Rank(log[i].ev) <= Rank(log[j].ev)
            /\ Rank(log[i].ev) = Rank(log[j].ev) => log[i].ev = "exec"

\* method f has done step ev on thread t before position i of log
Before(i, f, ev, t) ==
    \E h \in 1..(i - 1) : log[h].by = f /\ log[h].ev = ev /\ log[h].t = t

\* C9 as stated, for the services of SERVICE_DEFS that have no method
\* _started_<service>: in each of start, stop, restart and reload the steps
\* come in the order hook, watcher start, adapter commands, join, status
\* resolution; a watcher has been started before any adapter command and it
\* has been joined before the status is resolved.
C9_AllFourVerbs ==
    (what \in DOMAIN SERVICE_DEFS /\ what \notin StartedMethods) =>
        /\ InRankOrder
        /\ \A i \in 1..Len(log) :
              /\ log[i].ev = "exec" =>
                    \E t \in 1..Len(threads) : Before(i, log[i].by, "watch", t)
              /\ log[i].ev = "resolve" =>
                    \E t \in 1..Len(threads) :
                        /\ Before(i, log[i].by, "watch", t)
                        /\ Before(i, log[i].by, "join", t)

\* C9, amended: in start, stop and restart the steps come in the order hook,
\* watcher start, adapter commands, join, status resolution, where the watcher
\* is started exactly for the services of SERVICE_DEFS and is joined exactly
\* when the service has no method _started_<service> (for ups the method
\* starts a second watcher after the commands and joins that one); reload
\* starts and joins no watcher of its own: hook, adapter commands, status
\* resolution.
C9_StartStopRestart ==
    /\ InRankOrder
    /\ \A i \in 1..Len(log) :
          LET e == log[i]
          IN  /\ e.ev = "watch" => e.by # "reload" /\ what \in DOMAIN SERVICE_DEFS
              /\ (e.ev = "exec" /\ e.by # "reload" /\ what \in DOMAIN SERVICE_DEFS) =>
                    \E t \in 1..Len(threads) : Before(i, e.by, "watch", t)
              /\ e.ev = "join" =>
                    IF what \in StartedMethods
                    THEN Before(i, e.by, "watch_ups", e.t)
                    ELSE e.by # "reload" /\ Before(i, e.by, "watch", e.t)
              /\ (e.ev = "resolve" /\ e.by # "reload" /\ what \in DOMAIN SERVICE_DEFS) =>
                    \E t \in 1..Len(threads) : Before(i, e.by, "join", t)
              /\ (e.ev = "resolve" /\ e.by = "reload" /\ what \notin StartedMethods) =>
                    \A t \in 1..Len(threads) : ~ Before(i, "reload", "join", t)

\* restart of ssh has run its five commands while its watcher polled, joined
\* the watcher and found the daemon
C9_Witness ==
    /\ ppc = "done"
    /\ action = "restart"
    /\ what = "ssh"
    /\ Len(log) = 9
    /\ log[2].ev = "watch"
    /\ log[8].ev = "join"
    /\ threads[1].tries = 3
    /\ retval.running

\* the calls of restart() so far
RestartCount ==
    Cardinality({ i \in 1..Len(log) : log[i].by = "restart" /\ log[i].ev = "hook" })

\* _simplecmd("reload", service) has raised
ReloadRaised ==
    \E i \in 1..Len(log) : log[i].by = "reload" /\ log[i].ev = "raise"

C10_WitnessNoRestart ==
    /\ ppc = "done"
    /\ action = "reload"
    /\ what = "ssh"
    /\ ~ ReloadRaised
    /\ RestartCount = 0

\* C11: reload() of a service without a method _reload_<service> restarts
\* the service instead of reloading it: when it returns, restart() has run
\* once and no reload command has been handed to the system.
C11_ReloadWithoutMethodRestarts ==
    (action = "reload" /\ <<"reload", what>> \notin DOMAIN Methods /\ ppc = "done") =>
        /\ RestartCount = 1
        /\ \A i \in 1..Len(log) :
              log[i].ev = "exec" => log[i].cmd[3] # "reload"

C13_UnknownVerbIsFatal ==
    action \notin Verbs =>
        /\ \A i \in 1..Len(log) : log[i].ev # "exec"
        /\ ppc # "done"
        /\ ppc = "failed" => log[Len(log)].ev = "ValueError"

\* the thread has used up its tries
Exhausted(th) == th.pidfile # None /\ th.tries = MaxTries

\* C14: a thread that has used up its tries ends without an exception; the
\* join on it returns, _started goes on to pgrep, and the call returns what
\* pgrep found. The call fails only by an exception of a command or of
\* pgrep, never by the thread.
C14_TimeoutNotFatal ==
    /\ \A t \in 1..Len(threads) :
          Exhausted(threads[t]) =>
              /\ threads[t].pc \in {"loop", "done"}
              /\ (ppc = "join" /\ jn = t /\ threads[t].pc = "done") => ENABLED Join
    /\ ppc = "pgrep" => ENABLED Pgrep
    /\ ppc = "failed" => log[Len(log)].ev \in {"raise", "pgrep_raise"}
    /\ (ppc = "done" /\ what \in DOMAIN SERVICE_DEFS /\ what \notin StartedMethods
          /\ action # "reload") =>
          \E i, j \in 1..Len(log) :
              /\ i < j
              /\ log[i].ev = "join" /\ log[i].t = sn
              /\ log[j].ev = "resolve" /\ j = Len(log)
              /\ retval.type = "bool"
              /\ retval.running = _started(what, world)[1]

\* stop of ssh: the pid file was still there at every poll, the thread gave
\* up, stop() joined it and returned that sshd is running
C14_Witness ==
    /\ action = "stop"
    /\ what = "ssh"
    /\ ppc = "done"
    /\ Exhausted(threads[1])
    /\ threads[1].pc = "done"
    /\ log[Len(log) - 1].ev = "join"
    /\ log[Len(log)].ev = "resolve"
    /\ world.files["/var/run/sshd.pid"] = "1"
    /\ retval.running

\* the second call has returned
SecondDone == ppc = "done" /\ \E i \in 1..Len(log) : log[i].ev = "return"

\* what the first call returned
FirstRunning ==
    \E i \in 1..Len(log) : log[i].ev = "return" /\ log[i].cmd = << "True" >>

\* start() twice returns running both times and stop() twice returns not
\* running both times
SameBothTimes ==
    SecondDone =>
        /\ action = "start" => FirstRunning /\ retval.running
        /\ action = "stop" => ~ FirstRunning /\ ~ retval.running

C16_OwnWatcherJoined ==
    (ppc = "pgrep" /\ sn # 0) =>
        /\ ended(threads[sn])
        /\ \E i \in 1..Len(log) : log[i].ev = "join" /\ log[i].t = sn

\* C17: a thread of start or restart that has ended before its tries were
\* used up has ended after the daemon started by this call wrote its pid
\* file, that is, after the start or restart command of the daemon's rc.d
\* script returned, and not on the file the daemon before it had left.
C17_NoCompletionOnStaleFile ==
    \A t \in 1..Len(threads) :
        ( /\ threads[t].verb \in {"start", "restart"}
          /\ threads[t].pidfile # None
          /\ threads[t].pc = "done"
          /\ threads[t].tries < MaxTries ) =>
            \E i, j \in 1..Len(log) :
                /\ i < j
                /\ log[i].ev = "watch" /\ log[i].t = t
                /\ log[j].ev = "exec"
                /\ log[j].cmd[2] \in DOMAIN Controls
                /\ log[j].cmd[3] \in {"start", "restart"}

\* the polls thread t has made
PollCount(t) ==
    Cardinality({ i \in 1..Len(log) : log[i].ev = "poll" /\ log[i].t = t })

\* thread t has given up: its while loop ended without a break
GaveUp(t) ==
    \E i \in 1..Len(log) : log[i].ev = "giveup" /\ log[i].t = t

\* C18 as stated: a thread that never sees its condition gives up after
\* exactly 6 polls.
C18_SixPolls ==
    \A t \in 1..Len(threads) : GaveUp(t) => PollCount(t) = 6

\* C18, amended: a thread that never sees its condition gives up after
\* exactly 5 polls, each after a sleep of one time unit, and no thread
\* polls more than 5 times.
C18_FivePolls ==
    \A t \in 1..Len(threads) :
        /\ PollCount(t) <= 5
        /\ GaveUp(t) => PollCount(t) = 5 /\ threads[t].pc = "done"

\* the thread of a stop has polled 5 times with the pid file there and has
\* given up
C18_Witness ==
    /\ action = "stop"
    /\ what = "ssh"
    /\ GaveUp(1)
    /\ PollCount(1) = 5
    /\ threads[1].pc = "done"
    /\ \A i \in 1..Len(log) : log[i].cmd # << "met" >>

\* C19: every thread ends, whatever the pid file does and whatever the
\* verb, so that join() on it returns; until then it has polled at most 5
\* times, which takes it at most 5 sleeps of one time unit and 5 of a tenth.
C19_WatcherTerminates ==
    /\ <>(\A t \in 1..Len(threads) : ended(threads[t]))
    /\ [](\A t \in 1..Len(threads) : PollCount(t) <= 5)

\* the thread of a restart found the pid file at each of its 5 polls, never
\* with anything in it, and has ended
C19_Witness ==
    /\ action = "restart"
    /\ what = "ssh"
    /\ ended(threads[1])
    /\ PollCount(1) = 5
    /\ Cardinality({ i \in 1..Len(log) : log[i].ev = "stat" }) = 5

\* a step of thread t has seen the condition its verb waits for
Met(t) ==
    \E i \in 1..Len(log) : log[i].t = t /\ log[i].cmd = << "met" >>

\* C20: a thread with a pid file has ended before its tries were used up
\* exactly when one of its polls saw the condition of its verb: for start
\* and restart the file there and not empty, for stop the file gone; the
\* step that saw it is the last the thread took.
C20_EarlyExactlyWhenMet ==
    \A t \in 1..Len(threads) :
        threads[t].pidfile # None =>
            /\ (ended(threads[t]) /\ ~ GaveUp(t)) <=> Met(t)
            /\ \A i \in 1..Len(log) :
                  (log[i].t = t /\ log[i].cmd = << "met" >>) =>
                      \A j \in (i + 1)..Len(log) : log[j].t # t

\* C21: the thread of a service without a pid file never enters the while
\* loop of run(): it takes no sleep and no poll and ends at its first step,
\* so the join on it returns as soon as it has run; the status the call
\* returns is whether a process has the service's process name.
C21_NoPidfileNoWait ==
    /\ \A t \in 1..Len(threads) :
          threads[t].pidfile = None =>
              /\ threads[t].pc \in {"run", "done"}
              /\ threads[t].tries = 1
              /\ (ppc = "join" /\ jn = t /\ threads[t].pc = "done") => ENABLED Join
    /\ ( /\ ppc = "done"
         /\ what \in DOMAIN SERVICE_DEFS
         /\ what \notin StartedMethods
         /\ SERVICE_DEFS[what][2] = None
         /\ \A t \in 1..Len(threads) : ended(threads[t]) ) =>
            retval.running = (\E p \in world.procs : p.name = SERVICE_DEFS[what][1])

\* restart of dynamicdns: the thread ended at its first step, restart()
\* joined it and found inadyn-mt by its name
C21_Witness ==
    /\ action = "restart"
    /\ what = "dynamicdns"
    /\ ppc = "done"
    /\ threads[1].pidfile = None
    /\ threads[1].pc = "done"
    /\ \E i \in 1..Len(log) : log[i].ev = "join" /\ log[i].t = 1
    /\ retval.running

\* C22: whenever a method returns, it reports the service running exactly
\* if _get_status, run on the same machine at that moment, gives the state
\* RUNNING, whatever the enable flag of the service.
C22_StartedIffRunning ==
    [][ (ppc = "pgrep" /\ ppc' = "done") =>
            \A enable \in BOOLEAN :
                retval'.running <=>
                    _get_status(Row(what, enable), world).state = "RUNNING" ]_vars

\* the name the generic commands are run on: the process name SERVICE_DEFS
\* gives the service, or the service's own name when it gives none
GenericName(name) ==
    IF name \in DOMAIN SERVICE_DEFS /\ SERVICE_DEFS[name][1] # None
    THEN SERVICE_DEFS[name][1]
    ELSE name

\* the commands of the generic fallback
GenericCommands(act, name) ==
    IF act = "restart"
    THEN << <<"/usr/sbin/service", GenericName(name), "forcestop">>,
            <<"/usr/sbin/service", GenericName(name), "restart">> >>
    ELSE << <<"/usr/sbin/service", GenericName(name), act>> >>

\* the commands method f has run so far
Executed(f) ==
    LET ex == SelectSeq(log, LAMBDA e : e.by = f /\ e.ev = "exec")
    IN  [k \in 1..Len(ex) |-> ex[k].cmd]

\* the _simplecmd of method f has returned: f has gone on to look for the
\* process and no command of f has raised
Resolving(f) ==
    /\ \E i \in 1..Len(log) : log[i].by = f /\ log[i].ev \in {"resolve", "pgrep_raise"}
    /\ \A i \in 1..Len(log) : ~ (log[i].by = f /\ log[i].ev = "raise")

\* C23: a method without a method _<action>_<service> runs the generic
\* commands and nothing else: for restart "forcestop" and then "restart",
\* for start, stop and reload that one verb, each on the process name of
\* the service or, when it has none, on its own name.
C23_GenericFallback ==
    \A f \in Verbs :
        <<f, what>> \notin DOMAIN Methods =>
            /\ Len(Executed(f)) <= Len(GenericCommands(f, what))
            /\ \A k \in 1..Len(Executed(f)) : Executed(f)[k] = GenericCommands(f, what)[k]
            /\ Resolving(f) => Executed(f) = GenericCommands(f, what)

\* restart of upsmon has run "service upsmon forcestop" and then "service
\* upsmon restart" and has returned
C23_Witness ==
    /\ action = "restart"
    /\ what = "upsmon"
    /\ ppc = "done"
    /\ Executed("restart") = << <<"/usr/sbin/service", "upsmon", "forcestop">>,
                                <<"/usr/sbin/service", "upsmon", "restart">> >>

\* C24: _simplecmd with one of the four verbs takes one path only. When a
\* method _<action>_<service> exists, the commands run are those of the
\* method, once, and no generic command comes before or after them; when
\* none exists, they are the generic commands and no others.
C24_OnePath ==
    action \in Verbs =>
        LET expected == IF <<action, what>> \in DOMAIN Methods
                        THEN Methods[<<action, what>>]
                        ELSE GenericCommands(action, what)
        IN  /\ Len(Executed(action)) <= Len(expected)
            /\ \A k \in 1..Len(Executed(action)) : Executed(action)[k] = expected[k]
            /\ ppc = "done" => Executed(action) = expected

\* _simplecmd("restart", "django") has run _restart_django and returned:
\* one command, and no generic forcestop before it
C24_Witness ==
    /\ action = "restart"
    /\ what = "django"
    /\ ppc = "done"
    /\ Executed("restart") = << <<"/usr/sbin/service", "django", "restart">> >>
    /\ Executed("restart") # GenericCommands("restart", "django")

\* C26: _get_status of a service that is not in SERVICE_DEFS gives CRASHED
\* when the service is enabled and STOPPED when it is not, with no pids,
\* whatever processes run and whatever the pid files hold.
C26_UnknownNeverRunning ==
    (resolve.done /\ resolve.entry.service \notin DOMAIN SERVICE_DEFS) =>
        /\ resolve.result.state = (IF resolve.entry.enable THEN "CRASHED" ELSE "STOPPED")
        /\ resolve.result.pids = <<>>
        /\ resolve.result.service = resolve.entry.service

\* django, enabled, on a machine where every process of the model runs and
\* both pid files hold a pid: CRASHED
C26_Witness ==
    /\ resolve.done
    /\ resolve.entry.service = "django"
    /\ resolve.entry.enable
    /\ resolve.world.procs = QueryProcs
    /\ \A f \in QueryPidfiles : resolve.world.files[f] = "4"
    /\ resolve.result.state = "CRASHED"

\* no thread is the thread of two calls, and a call joins no thread but
\* its own; join() returns once that thread has ended
NeverShared ==
    /\ \A c, d \in 1..Len(calls) :
          (c # d /\ calls[c].sn # 0) => calls[c].sn # calls[d].sn
    /\ \A c \in 1..Len(calls) :
          /\ calls[c].joined \in {0, calls[c].sn}
          /\ calls[c].joined # 0 => ended(threads[calls[c].joined])

\* C25 as stated: no two threads that are still running watch the same pid
\* file, and no thread is shared: each is joined by the call that started
\* it and by no other, also when two calls on the same service overlap.
C25_OneWatcherPerPidfile ==
    /\ \A t, u \in 1..Len(threads) :
          (t # u /\ ~ ended(threads[t]) /\ ~ ended(threads[u])) =>
              threads[t].pidfile # threads[u].pidfile
    /\ NeverShared

\* C25, amended: no thread is shared: each is joined by the call that
\* started it and by no other, also when two calls on the same service
\* overlap; the threads of overlapping calls may watch the same pid file at
\* the same time.
C25_WatcherNeverShared == NeverShared

\* a start and a stop of ssh overlap: each waits in join() for its own
\* thread, and both threads are polling /var/run/sshd.pid
C25_Witness ==
    /\ what = "ssh"
    /\ calls[1].verb = "start" /\ calls[2].verb = "stop"
    /\ calls[1].pc = "started" /\ calls[2].pc = "started"
    /\ calls[1].sn = 1 /\ calls[2].sn = 2
    /\ threads[1].pc = "cond" /\ threads[2].pc = "loop"
    /\ threads[1].tries = 2 /\ threads[2].tries = 3
    /\ threads[1].pidfile = threads[2].pidfile

====
